---------------------------- MODULE Spec2Model ----------------------------
(* Model of IndustrialReconstruction                                       *)
(* (industrial_reconstruction/industrial_reconstruction.py).               *)
(*                                                                         *)
(* The node runs under MultiThreadedExecutor(3) with three mutually        *)
(* exclusive callback groups, so three contexts interleave:                *)
(*   - the service group: start / stop / pause / resume  (svc_pc),         *)
(*   - the synchronizer subscription: cameraCallback     (cam_pc),         *)
(*   - the 50 Hz timer: reconstructCallback              (tick_pc).        *)
(* No lock protects the fields of the node; a context can be preempted     *)
(* between statements.  Program counters are named after source lines.     *)
EXTENDS Integers, Sequences, FiniteSets, TLC

(***************************************************************************)
(* Bounds of the model.                                                    *)
(***************************************************************************)
\* The warm-up literal of line 419 is 30; the model keeps the comparison
\* `frame_count <= WarmUp` and scales the literal so that a session can pass
\* the warm-up within the frame bound.
WarmUp == 1
\* cameraCallback is not started once frame_count has reached MaxFrames.
MaxFrames == 2

(***************************************************************************)
(* Poses: translation vector and rotation quaternion (w, x, y, z), as      *)
(* produced by transformStampedToVectors.                                  *)
(***************************************************************************)
IdentityRot  == <<1, 0, 0, 0>>
IdentityTran == <<0, 0, 0>>

NoPose == [t |-> <<0, 0, 0>>, q |-> <<0, 0, 0, 0>>]

\* Transforms the tf buffer may answer with.
Poses ==
  { [t |-> <<1, 0, 0>>, q |-> <<-1, 0, 0, 0>>],
    [t |-> <<2, 0, 0>>, q |-> <<0, 1, 0, 0>>] }

\* StartReconstruction requests.
Requests ==
  { [live |-> TRUE,  translation_distance |-> 1, rotational_distance |-> 1,
     depth_scale |-> 1000, depth_trunc |-> 3, crop |-> FALSE],
    [live |-> FALSE, translation_distance |-> 2, rotational_distance |-> 1,
     depth_scale |-> 1, depth_trunc |-> 5, crop |-> TRUE] }

VARIABLES
  \* fields of the node (__init__, lines 108-146)
  record, paused, live_integration, integration_done,
  frame_count, processed_frame_count, reconstructed_frame_count,
  sensor_data, tsdf_integration_data,
  depth_images, color_images, rgb_poses,
  prev_pose_rot, prev_pose_tran,
  translation_distance, rotational_distance,
  depth_scale, depth_trunc, crop_mesh,
  tsdf_volume,
  \* service context
  svc_pc, req, res,
  \* stopReconstructionCallback: its request, its local meshes, the position
  \* of the loop of line 352, and the files it writes
  stop_req, extracted, mesh, cropped_mesh, filt_i, mesh_file, archive_mesh_file,
  \* producer context
  cam_pc,
  \* consumer context
  tick_pc, tick_pose, tick_first,
  \* history: a frame was popped since the latest Start began
  popped,
  \* history: a Start began since the cameraCallback in flight began
  cam_stale

nodeVars ==
  << record, paused, live_integration, integration_done,
     frame_count, processed_frame_count, reconstructed_frame_count,
     sensor_data, tsdf_integration_data,
     depth_images, color_images, rgb_poses,
     prev_pose_rot, prev_pose_tran,
     translation_distance, rotational_distance,
     depth_scale, depth_trunc, crop_mesh, tsdf_volume >>

exportVars ==
  << stop_req, extracted, mesh, cropped_mesh, filt_i, mesh_file,
     archive_mesh_file >>

svcVars  == << svc_pc, req, res, exportVars >>
camVars  == << cam_pc, cam_stale >>
tickVars == << tick_pc, tick_pose, tick_first >>

vars == << nodeVars, svcVars, camVars, tickVars, popped >>

(***************************************************************************)
(* Pure helpers.                                                           *)
(***************************************************************************)
Sq(x) == x * x

Min(a, b) == IF a < b THEN a ELSE b

\* np.linalg.norm(a - b) squared, line 425
TranDistSq(a, b) ==
  Sq(a[1] - b[1]) + Sq(a[2] - b[2]) + Sq(a[3] - b[3])

QuatNormSqMinus(a, b) ==
  Sq(a[1] - b[1]) + Sq(a[2] - b[2]) + Sq(a[3] - b[3]) + Sq(a[4] - b[4])

QuatNormSqPlus(a, b) ==
  Sq(a[1] + b[1]) + Sq(a[2] + b[2]) + Sq(a[3] + b[3]) + Sq(a[4] + b[4])

\* Quaternion.absolute_distance(q0, q1) squared, line 426:
\* the smaller of |q0 - q1| and |q0 + q1|.
AbsoluteDistanceSq(a, b) == Min(QuatNormSqMinus(a, b), QuatNormSqPlus(a, b))

\* dist >= threshold for a distance given by its square and a threshold >= 0
DistGE(distSq, threshold) == distSq >= Sq(threshold)

\* line 429
GateAccept(pose, prevTran, prevRot, tranThr, rotThr) ==
  \/ DistGE(TranDistSq(pose.t, prevTran), tranThr)
  \/ DistGE(AbsoluteDistanceSq(prevRot, pose.q), rotThr)

NoRequest == [live |-> FALSE, translation_distance |-> 0, rotational_distance |-> 0,
              depth_scale |-> 0, depth_trunc |-> 0, crop |-> FALSE]

Response(op, success, message, raised) ==
  [op |-> op, success |-> success, message |-> message, raised |-> raised]

\* No call has a response pending.
NoResponse == Response("none", FALSE, "", FALSE)

\* tsdf_volume: None until the first Start; then the frames integrated so far.
NoVolume  == [created |-> FALSE, integrated |-> <<>>]
NewVolume == [created |-> TRUE,  integrated |-> <<>>]

(***************************************************************************)
(* Meshes.  A mesh is a set of triangles; a triangle has its unit normal   *)
(* (compute_vertex_normals), the connected piece of the surface it lies on *)
(* (pieces have at most two triangles, so removing triangles never splits  *)
(* one) and whether it lies inside the crop box of the session.            *)
(***************************************************************************)
Triangles ==
  { [id |-> 1, normal |-> <<0, 0, 1>>,  cluster |-> 1, inbox |-> TRUE],
    [id |-> 2, normal |-> <<0, 0, 1>>,  cluster |-> 1, inbox |-> FALSE],
    [id |-> 3, normal |-> <<1, 0, 0>>,  cluster |-> 2, inbox |-> TRUE],
    [id |-> 4, normal |-> <<0, 0, -1>>, cluster |-> 2, inbox |-> TRUE] }

\* Meshes extract_triangle_mesh may return (line 343).
Meshes == { Triangles }

\* tri_normals @ direction, line 50
Dot(a, b) == a[1] * b[1] + a[2] * b[2] + a[3] * b[3]

\* 2 * np.cos(np.radians(angle)) for the angles (in degrees) of the model
CosTimes2(angle) ==
  CASE angle = 0   -> 2
    [] angle = 60  -> 1
    [] angle = 90  -> 0
    [] angle = 120 -> -1
    [] angle = 180 -> -2

\* filterNormals, lines 47-52: the triangles with dot_prods < cos(angle) are
\* removed from the mesh (in place; the same mesh object is returned).
filterNormals(m, direction, angle) ==
  { t \in m : ~(2 * Dot(t.normal, direction) < CosTimes2(angle)) }

\* the loop of lines 352-354 over a list of filters
RECURSIVE ApplyFilters(_, _)
ApplyFilters(m, filters) ==
  IF filters = <<>> THEN m
  ELSE ApplyFilters(filterNormals(m, Head(filters).normal_direction,
                                  Head(filters).angle),
                    Tail(filters))

\* mesh.crop(self.crop_box), line 347: a new mesh
Crop(m) == { t \in m : t.inbox }

\* lines 356-362: triangles of connected pieces with fewer than
\* min_num_faces triangles are removed (in place)
RemoveSmallClusters(m, min_num_faces) ==
  { t \in m :
      ~(Cardinality({ u \in m : u.cluster = t.cluster }) < min_num_faces) }

\* A file on disk holding a mesh; NoFile: not written.
File(m) == [written |-> TRUE, triangles |-> m]
NoFile  == [written |-> FALSE, triangles |-> {}]

NoStopRequest ==
  [normal_filters |-> <<>>, min_num_faces |-> 0, archive_directory |-> ""]

\* StopReconstruction requests.
StopRequests ==
  { [normal_filters |-> <<>>, min_num_faces |-> 0, archive_directory |-> ""],
    [normal_filters |-> << [normal_direction |-> <<0, 0, 1>>, angle |-> 60] >>,
     min_num_faces |-> 2, archive_directory |-> "archive"] }

\* No Stop call has left anything behind.
NoExport ==
  /\ stop_req = NoStopRequest
  /\ extracted = {}
  /\ mesh = {}
  /\ cropped_mesh = {}
  /\ filt_i = 0
  /\ mesh_file = NoFile
  /\ archive_mesh_file = NoFile

(***************************************************************************)
(* __init__, lines 108-146                                                 *)
(***************************************************************************)
Init ==
  /\ record = FALSE
  /\ paused = FALSE
  /\ live_integration = FALSE
  /\ integration_done = TRUE
  /\ frame_count = 0
  /\ processed_frame_count = 0
  /\ reconstructed_frame_count = 0
  /\ sensor_data = <<>>
  /\ tsdf_integration_data = <<>>
  /\ depth_images = <<>>
  /\ color_images = <<>>
  /\ rgb_poses = <<>>
  /\ prev_pose_rot = IdentityRot
  /\ prev_pose_tran = IdentityTran
  /\ translation_distance = 5    \* 0.05, in hundredths (overwritten by Start
  /\ rotational_distance = 1     \* 0.01   before any frame can be gated)
  /\ depth_scale = 1000
  /\ depth_trunc = 3
  /\ crop_mesh = FALSE
  /\ tsdf_volume = NoVolume
  /\ svc_pc = "idle"
  /\ req = NoRequest
  /\ res = NoResponse
  /\ NoExport
  /\ cam_pc = "idle"
  /\ cam_stale = FALSE
  /\ tick_pc = "idle"
  /\ tick_pose = NoPose
  /\ tick_first = FALSE
  /\ popped = FALSE

(***************************************************************************)
(* Service context.  The four services share one mutually exclusive        *)
(* callback group (lines 191-203): a call starts only when no other call   *)
(* is running.  Consecutive statements that no statement of the other two  *)
(* contexts can tell apart are taken as one step.                          *)
(***************************************************************************)

\* startReconstructionCallback, lines 228-269: the archive lists, the queue
\* and the deferred buffer are cleared, prevPose := identity, crop box set
Start230 ==
  /\ svc_pc = "idle"
  /\ \E r \in Requests : req' = r
  /\ color_images' = <<>>
  /\ depth_images' = <<>>
  /\ rgb_poses' = <<>>
  /\ sensor_data' = <<>>
  /\ tsdf_integration_data' = <<>>
  /\ prev_pose_rot' = IdentityRot
  /\ prev_pose_tran' = IdentityTran
  /\ crop_mesh' = req'.crop
  /\ svc_pc' = "s271"
  /\ popped' = FALSE
  /\ cam_stale' = (cam_pc # "idle")
  /\ UNCHANGED << record, paused, live_integration, integration_done,
                  frame_count, processed_frame_count,
                  reconstructed_frame_count, translation_distance,
                  rotational_distance, depth_scale, depth_trunc, tsdf_volume,
                  res, exportVars, cam_pc, tickVars >>

\* lines 271-288: counters, a fresh ScalableTSDFVolume, rgbd parameters,
\* thresholds, live flag
Start271 ==
  /\ svc_pc = "s271"
  /\ frame_count' = 0
  /\ processed_frame_count' = 0
  /\ reconstructed_frame_count' = 0
  /\ tsdf_volume' = NewVolume
  /\ depth_scale' = req.depth_scale
  /\ depth_trunc' = req.depth_trunc
  /\ translation_distance' = req.translation_distance
  /\ rotational_distance' = req.rotational_distance
  /\ live_integration' = req.live
  /\ svc_pc' = "s289"
  /\ UNCHANGED << record, paused, integration_done, sensor_data,
                  tsdf_integration_data, depth_images, color_images,
                  rgb_poses, prev_pose_rot, prev_pose_tran, crop_mesh, req,
                  res, exportVars, camVars, tickVars, popped >>

\* lines 289-293: record := True, paused := False; the response
Start289 ==
  /\ svc_pc = "s289"
  /\ record' = TRUE
  /\ paused' = FALSE
  /\ res' = Response("start", TRUE, "", FALSE)
  /\ req' = NoRequest
  /\ svc_pc' = "done"
  /\ UNCHANGED << live_integration, integration_done, frame_count,
                  processed_frame_count, reconstructed_frame_count,
                  sensor_data, tsdf_integration_data, depth_images,
                  color_images, rgb_poses, prev_pose_rot, prev_pose_tran,
                  translation_distance, rotational_distance, depth_scale,
                  depth_trunc, crop_mesh, tsdf_volume, exportVars, camVars, tickVars, popped >>

StartPcs == {"s271", "s289"}

\* Variant of PauseNotRecording without the early return of line 300: the
\* call falls through to line 302.
PauseNotRecordingFallsThrough ==
  /\ svc_pc = "idle"
  /\ ~record
  /\ paused' = TRUE
  /\ res' = Response("pause", FALSE,
                     "Cannot pause reconstruction that was never started. Doing nothing",
                     FALSE)
  /\ svc_pc' = "done"
  /\ UNCHANGED << record, live_integration, integration_done, frame_count,
                  processed_frame_count, reconstructed_frame_count,
                  sensor_data, tsdf_integration_data, depth_images,
                  color_images, rgb_poses, prev_pose_rot, prev_pose_tran,
                  translation_distance, rotational_distance, depth_scale,
                  depth_trunc, crop_mesh, tsdf_volume,
                  req, exportVars, camVars, tickVars, popped >>

\* pauseReconstructionCallback, lines 296-300: not recording
PauseNotRecording ==
  /\ svc_pc = "idle"
  /\ ~record
  /\ res' = Response("pause", FALSE,
                     "Cannot pause reconstruction that was never started. Doing nothing",
                     FALSE)
  /\ svc_pc' = "done"
  /\ UNCHANGED << nodeVars, req, exportVars, camVars, tickVars, popped >>

\* pauseReconstructionCallback, lines 302-304: paused is set, then
\* len(self.sensor_data > 0) compares a deque with an int and raises
\* TypeError: the callback ends without returning its response
\* (res.success was never assigned and keeps its default, False).
\* What the executor does with the exception is outside this file: the
\* model lets the node go on; a node that dies takes no further step.
PauseRecording ==
  /\ svc_pc = "idle"
  /\ record
  /\ paused' = TRUE
  /\ res' = Response("pause", FALSE, "Pausing Reconstruction. ", TRUE)
  /\ svc_pc' = "done"
  /\ UNCHANGED << record, live_integration, integration_done, frame_count,
                  processed_frame_count, reconstructed_frame_count,
                  sensor_data, tsdf_integration_data, depth_images,
                  color_images, rgb_poses, prev_pose_rot, prev_pose_tran,
                  translation_distance, rotational_distance, depth_scale,
                  depth_trunc, crop_mesh, tsdf_volume, req, exportVars, camVars,
                  tickVars, popped >>

\* resumeReconstructionCallback, lines 310-314: not paused
ResumeNotPaused ==
  /\ svc_pc = "idle"
  /\ ~paused
  /\ res' = Response("resume", FALSE,
                     "Cannot resume reconstruction that was not initially paused. Doing nothing",
                     FALSE)
  /\ svc_pc' = "done"
  /\ UNCHANGED << nodeVars, req, exportVars, camVars, tickVars, popped >>

\* resumeReconstructionCallback, lines 316-320
ResumePaused ==
  /\ svc_pc = "idle"
  /\ paused
  /\ paused' = FALSE
  /\ res' = Response("resume", TRUE, "Resuming reconstruction", FALSE)
  /\ svc_pc' = "done"
  /\ UNCHANGED << record, live_integration, integration_done, frame_count,
                  processed_frame_count, reconstructed_frame_count,
                  sensor_data, tsdf_integration_data, depth_images,
                  color_images, rgb_poses, prev_pose_rot, prev_pose_tran,
                  translation_distance, rotational_distance, depth_scale,
                  depth_trunc, crop_mesh, tsdf_volume, req, exportVars, camVars,
                  tickVars, popped >>

\* stopReconstructionCallback, lines 323-324
Stop324 ==
  /\ svc_pc = "idle"
  /\ record' = FALSE
  /\ svc_pc' = "p328"
  /\ UNCHANGED << paused, live_integration, integration_done, frame_count,
                  processed_frame_count, reconstructed_frame_count,
                  sensor_data, tsdf_integration_data, depth_images,
                  color_images, rgb_poses, prev_pose_rot, prev_pose_tran,
                  translation_distance, rotational_distance, depth_scale,
                  depth_trunc, crop_mesh, tsdf_volume, req, res, exportVars, camVars,
                  tickVars, popped >>

\* line 328, left operand of `and`: integration_done is read; when it is
\* False the loop body sleeps (line 329) and the condition is read again.
Stop328 ==
  /\ svc_pc = "p328"
  /\ svc_pc' = IF integration_done THEN "p328len" ELSE "p328"
  /\ UNCHANGED << nodeVars, req, res, exportVars, camVars, tickVars, popped >>

\* line 328, right operand: len(self.sensor_data) == 0 ends the loop,
\* otherwise the loop body sleeps (line 329).
Stop328Len ==
  /\ svc_pc = "p328len"
  /\ svc_pc' = IF Len(sensor_data) = 0 THEN "p332" ELSE "p328"
  /\ UNCHANGED << nodeVars, req, res, exportVars, camVars, tickVars, popped >>

\* lines 331-335: no volume, Start was never called
Stop332NoVolume ==
  /\ svc_pc = "p332"
  /\ ~tsdf_volume.created
  /\ res' = Response("stop", FALSE, "Start reconstruction hasn't been called yet", FALSE)
  /\ svc_pc' = "done"
  /\ UNCHANGED << nodeVars, req, exportVars, camVars, tickVars, popped >>

\* lines 332, 336
Stop332 ==
  /\ svc_pc = "p332"
  /\ tsdf_volume.created
  /\ svc_pc' = "p337"
  /\ UNCHANGED << nodeVars, req, res, exportVars, camVars, tickVars, popped >>

\* lines 336-341, one iteration of the deferred drain: the oldest buffered
\* frame is removed and integrated.
Stop337 ==
  /\ svc_pc = "p337"
  /\ ~live_integration
  /\ Len(tsdf_integration_data) > 0
  /\ tsdf_integration_data' = Tail(tsdf_integration_data)
  /\ tsdf_volume' = [tsdf_volume EXCEPT
                       !.integrated = Append(@, Head(tsdf_integration_data))]
  /\ UNCHANGED << record, paused, live_integration, integration_done,
                  frame_count, processed_frame_count,
                  reconstructed_frame_count, sensor_data, depth_images,
                  color_images, rgb_poses, prev_pose_rot, prev_pose_tran,
                  translation_distance, rotational_distance, depth_scale,
                  depth_trunc, crop_mesh, svc_pc, req, res, exportVars, camVars,
                  tickVars, popped >>

\* lines 338-341 when the engine raises: the frame was already removed and
\* nothing catches the exception, so the callback ends without returning
\* its response.
Stop337Raise ==
  /\ svc_pc = "p337"
  /\ ~live_integration
  /\ Len(tsdf_integration_data) > 0
  /\ tsdf_integration_data' = Tail(tsdf_integration_data)
  /\ res' = Response("stop", FALSE, "", TRUE)
  /\ svc_pc' = "done"
  /\ UNCHANGED << record, paused, live_integration, integration_done,
                  frame_count, processed_frame_count,
                  reconstructed_frame_count, sensor_data, depth_images,
                  color_images, rgb_poses, prev_pose_rot, prev_pose_tran,
                  translation_distance, rotational_distance, depth_scale,
                  depth_trunc, crop_mesh, tsdf_volume, req, exportVars, camVars,
                  tickVars, popped >>

\* lines 336-337 (live mode, or the buffer is drained) and 343-388: the
\* mesh is extracted and, with a crop box, cropped into a new mesh; without
\* one `cropped_mesh = mesh` names the same object, so what the filters and
\* the cluster removal take from cropped_mesh they take from mesh.  The mesh
\* file is written from cropped_mesh and, with an archive directory,
\* integrated.ply from mesh.  The response.
Stop343 ==
  /\ svc_pc = "p337"
  /\ live_integration \/ Len(tsdf_integration_data) = 0
  /\ \E sr \in StopRequests, m \in Meshes :
       LET cropped  == IF crop_mesh THEN Crop(m) ELSE m
           filtered == ApplyFilters(cropped, sr.normal_filters)
           final    == RemoveSmallClusters(filtered, sr.min_num_faces)
           meshNow  == IF crop_mesh THEN m ELSE final
       IN  /\ stop_req' = sr
           /\ extracted' = m
           /\ mesh' = meshNow
           /\ cropped_mesh' = final
           /\ filt_i' = Len(sr.normal_filters)
           /\ mesh_file' = File(final)
           /\ archive_mesh_file' =
                IF sr.archive_directory # "" THEN File(meshNow) ELSE NoFile
  /\ res' = Response("stop", TRUE, "Mesh Saved", FALSE)
  /\ svc_pc' = "done"
  /\ UNCHANGED << nodeVars, req, camVars, tickVars, popped >>

\* Variant of Stop352 in which each filter is applied to the mesh as it was
\* extracted instead of the result of the filters before it.
Stop352OnExtracted ==
  /\ svc_pc = "p352"
  /\ filt_i < Len(stop_req.normal_filters)
  /\ LET f == stop_req.normal_filters[filt_i + 1]
         r == filterNormals(extracted, f.normal_direction, f.angle)
     IN  /\ cropped_mesh' = r
         /\ mesh' = IF crop_mesh THEN mesh ELSE r
  /\ filt_i' = filt_i + 1
  /\ UNCHANGED << nodeVars, svc_pc, req, res, stop_req, extracted, mesh_file,
                  archive_mesh_file, camVars, tickVars, popped >>

\* lines 352-354, one iteration of the loop taken on its own: the next
\* filter of the request is applied to cropped_mesh.
Stop352 ==
  /\ svc_pc = "p352"
  /\ filt_i < Len(stop_req.normal_filters)
  /\ LET f == stop_req.normal_filters[filt_i + 1]
         r == filterNormals(cropped_mesh, f.normal_direction, f.angle)
     IN  /\ cropped_mesh' = r
         /\ mesh' = IF crop_mesh THEN mesh ELSE r
  /\ filt_i' = filt_i + 1
  /\ UNCHANGED << nodeVars, svc_pc, req, res, stop_req, extracted, mesh_file,
                  archive_mesh_file, camVars, tickVars, popped >>

StopPcs == {"p328", "p328len", "p332", "p337"}

\* The executor hands the outcome of the call to the client (or the
\* exception to spin()); the service group is free for the next call.
Respond ==
  /\ svc_pc = "done"
  /\ res' = NoResponse
  /\ stop_req' = NoStopRequest
  /\ extracted' = {}
  /\ mesh' = {}
  /\ cropped_mesh' = {}
  /\ filt_i' = 0
  /\ mesh_file' = NoFile
  /\ archive_mesh_file' = NoFile
  /\ svc_pc' = "idle"
  /\ UNCHANGED << nodeVars, req, camVars, tickVars, popped >>

(***************************************************************************)
(* Producer context: cameraCallback, lines 390-416.                        *)
(***************************************************************************)

\* line 391: dropped while paused or not recording
Camera391Drop ==
  /\ cam_pc = "idle"
  /\ paused \/ ~record
  /\ UNCHANGED vars

\* Variant of Camera391 whose test of line 391 looks at record only.
Camera391IgnoresPaused ==
  /\ cam_pc = "idle"
  /\ record
  /\ frame_count < MaxFrames
  /\ cam_pc' = "c407"
  /\ cam_stale' = FALSE
  /\ UNCHANGED << nodeVars, svcVars, tickVars, popped >>

\* lines 391-400: the images are converted; the pose lookup begins
Camera391 ==
  /\ cam_pc = "idle"
  /\ ~(paused \/ ~record)
  /\ frame_count < MaxFrames
  /\ cam_pc' = "c407"
  /\ cam_stale' = FALSE
  /\ UNCHANGED << nodeVars, svcVars, tickVars, popped >>

\* lines 401-403: CvBridgeError, the frame is dropped
Camera401 ==
  /\ cam_pc = "idle"
  /\ ~(paused \/ ~record)
  /\ UNCHANGED vars

\* lines 406-409 and 415: lookup_transform answers (after up to 5 s) and
\* the frame is appended to the queue with its pose
Camera415 ==
  /\ cam_pc = "c407"
  /\ \E p \in Poses : sensor_data' = Append(sensor_data, p)
  /\ cam_pc' = "c416"
  /\ UNCHANGED cam_stale
  /\ UNCHANGED << record, paused, live_integration, integration_done,
                  frame_count, processed_frame_count,
                  reconstructed_frame_count, tsdf_integration_data,
                  depth_images, color_images, rgb_poses, prev_pose_rot,
                  prev_pose_tran, translation_distance, rotational_distance,
                  depth_scale, depth_trunc, crop_mesh, tsdf_volume, svcVars,
                  tickVars, popped >>

\* lines 410-412: lookup_transform fails, the frame is dropped
Camera410 ==
  /\ cam_pc = "c407"
  /\ cam_pc' = "idle"
  /\ cam_stale' = FALSE
  /\ UNCHANGED << nodeVars, svcVars, tickVars, popped >>

\* line 416
Camera416 ==
  /\ cam_pc = "c416"
  /\ frame_count' = frame_count + 1
  /\ cam_pc' = "idle"
  /\ cam_stale' = FALSE
  /\ UNCHANGED << record, paused, live_integration, integration_done,
                  processed_frame_count, reconstructed_frame_count,
                  sensor_data, tsdf_integration_data, depth_images,
                  color_images, rgb_poses, prev_pose_rot, prev_pose_tran,
                  translation_distance, rotational_distance, depth_scale,
                  depth_trunc, crop_mesh, tsdf_volume, svcVars, tickVars,
                  popped >>

(***************************************************************************)
(* Consumer context: reconstructCallback, lines 418-466 (timer, 50 Hz).    *)
(***************************************************************************)

\* line 419: warm-up, or nothing queued: the tick returns
Tick419Return ==
  /\ tick_pc = "idle"
  /\ frame_count <= WarmUp \/ Len(sensor_data) = 0
  /\ UNCHANGED vars

\* line 419: the tick goes on to pop
Tick419 ==
  /\ tick_pc = "idle"
  /\ ~(frame_count <= WarmUp \/ Len(sensor_data) = 0)
  /\ tick_pc' = "r421"
  /\ UNCHANGED << nodeVars, svcVars, camVars, tick_pose, tick_first, popped >>

\* line 421: popleft
Tick421 ==
  /\ tick_pc = "r421"
  /\ Len(sensor_data) > 0
  /\ tick_pose' = Head(sensor_data)
  /\ sensor_data' = Tail(sensor_data)
  /\ tick_first' = ~popped
  /\ popped' = TRUE
  /\ tick_pc' = "r425"
  /\ UNCHANGED << record, paused, live_integration, integration_done,
                  frame_count, processed_frame_count, reconstructed_frame_count,
                  tsdf_integration_data, depth_images, color_images, rgb_poses,
                  prev_pose_rot, prev_pose_tran,
                  translation_distance, rotational_distance,
                  depth_scale, depth_trunc, crop_mesh, tsdf_volume,
                  svcVars, camVars >>

\* line 421 on a deque emptied since line 419 (sensor_data.clear() of
\* Start): popleft raises IndexError and the tick ends.
Tick421Raise ==
  /\ tick_pc = "r421"
  /\ Len(sensor_data) = 0
  /\ tick_pc' = "idle"
  /\ UNCHANGED << nodeVars, svcVars, camVars, tick_pose, tick_first, popped >>

\* Variant of Tick429Reject that moves prevPose to the rejected frame's pose
\* (a gate against the frame seen last).
Tick429RejectMovesPrevPose ==
  /\ tick_pc = "r425"
  /\ ~GateAccept(tick_pose, prev_pose_tran, prev_pose_rot,
                 translation_distance, rotational_distance)
  /\ prev_pose_tran' = tick_pose.t
  /\ prev_pose_rot' = tick_pose.q
  /\ tick_pc' = "idle"
  /\ tick_pose' = NoPose
  /\ tick_first' = FALSE
  /\ UNCHANGED << record, paused, live_integration, integration_done,
                  frame_count, processed_frame_count, reconstructed_frame_count,
                  sensor_data, tsdf_integration_data,
                  depth_images, color_images, rgb_poses,
                  translation_distance, rotational_distance,
                  depth_scale, depth_trunc, crop_mesh, tsdf_volume,
                  svcVars, camVars, popped >>

\* lines 422-429: the gate rejects, the tick returns
Tick429Reject ==
  /\ tick_pc = "r425"
  /\ ~GateAccept(tick_pose, prev_pose_tran, prev_pose_rot,
                 translation_distance, rotational_distance)
  /\ tick_pc' = "idle"
  /\ tick_pose' = NoPose
  /\ tick_first' = FALSE
  /\ UNCHANGED << nodeVars, svcVars, camVars, popped >>

\* lines 422-429: the gate accepts
Tick429Accept ==
  /\ tick_pc = "r425"
  /\ GateAccept(tick_pose, prev_pose_tran, prev_pose_rot,
                translation_distance, rotational_distance)
  /\ tick_pc' = "r430"
  /\ UNCHANGED << nodeVars, svcVars, camVars, tick_pose, tick_first,
                  popped >>

\* lines 430-435
Tick430 ==
  /\ tick_pc = "r430"
  /\ prev_pose_tran' = tick_pose.t
  /\ prev_pose_rot' = tick_pose.q
  /\ tick_pc' = "r437"
  /\ UNCHANGED << record, paused, live_integration, integration_done,
                  frame_count, processed_frame_count, reconstructed_frame_count,
                  sensor_data, tsdf_integration_data,
                  depth_images, color_images, rgb_poses,
                  translation_distance, rotational_distance,
                  depth_scale, depth_trunc, crop_mesh, tsdf_volume,
                  svcVars, camVars, tick_pose, tick_first, popped >>

\* line 437
Tick437 ==
  /\ tick_pc = "r437"
  /\ depth_images' = Append(depth_images, tick_pose)
  /\ tick_pc' = "r438"
  /\ UNCHANGED << record, paused, live_integration, integration_done,
                  frame_count, processed_frame_count, reconstructed_frame_count,
                  sensor_data, tsdf_integration_data, color_images, rgb_poses,
                  prev_pose_rot, prev_pose_tran,
                  translation_distance, rotational_distance,
                  depth_scale, depth_trunc, crop_mesh, tsdf_volume,
                  svcVars, camVars, tick_pose, tick_first, popped >>

\* line 438
Tick438 ==
  /\ tick_pc = "r438"
  /\ color_images' = Append(color_images, tick_pose)
  /\ tick_pc' = "r439"
  /\ UNCHANGED << record, paused, live_integration, integration_done,
                  frame_count, processed_frame_count, reconstructed_frame_count,
                  sensor_data, tsdf_integration_data, depth_images, rgb_poses,
                  prev_pose_rot, prev_pose_tran,
                  translation_distance, rotational_distance,
                  depth_scale, depth_trunc, crop_mesh, tsdf_volume,
                  svcVars, camVars, tick_pose, tick_first, popped >>

\* line 439
Tick439 ==
  /\ tick_pc = "r439"
  /\ rgb_poses' = Append(rgb_poses, tick_pose)
  /\ tick_pc' = "r441"
  /\ UNCHANGED << record, paused, live_integration, integration_done,
                  frame_count, processed_frame_count, reconstructed_frame_count,
                  sensor_data, tsdf_integration_data, depth_images, color_images,
                  prev_pose_rot, prev_pose_tran,
                  translation_distance, rotational_distance,
                  depth_scale, depth_trunc, crop_mesh, tsdf_volume,
                  svcVars, camVars, tick_pose, tick_first, popped >>

\* lines 441-442: live mode with a volume: integration is marked in flight
Tick441Live ==
  /\ tick_pc = "r441"
  /\ live_integration /\ tsdf_volume.created
  /\ integration_done' = FALSE
  /\ tick_pc' = "r448"
  /\ UNCHANGED << record, paused, live_integration,
                  frame_count, processed_frame_count, reconstructed_frame_count,
                  sensor_data, tsdf_integration_data,
                  depth_images, color_images, rgb_poses,
                  prev_pose_rot, prev_pose_tran,
                  translation_distance, rotational_distance,
                  depth_scale, depth_trunc, crop_mesh, tsdf_volume,
                  svcVars, camVars, tick_pose, tick_first, popped >>

\* lines 444-449: the engine integrates the frame
Tick448 ==
  /\ tick_pc = "r448"
  /\ tsdf_volume' = [tsdf_volume EXCEPT !.integrated = Append(@, tick_pose)]
  /\ integration_done' = TRUE
  /\ tick_pc' = "r450"
  /\ UNCHANGED << record, paused, live_integration,
                  frame_count, processed_frame_count, reconstructed_frame_count,
                  sensor_data, tsdf_integration_data,
                  depth_images, color_images, rgb_poses,
                  prev_pose_rot, prev_pose_tran,
                  translation_distance, rotational_distance,
                  depth_scale, depth_trunc, crop_mesh,
                  svcVars, camVars, tick_pose, tick_first, popped >>

\* Variant of Tick460 that leaves integration_done as line 442 set it.
Tick460LeavesMarker ==
  /\ tick_pc = "r448"
  /\ tick_pc' = "idle"
  /\ tick_pose' = NoPose
  /\ tick_first' = FALSE
  /\ UNCHANGED << nodeVars, svcVars, camVars, popped >>

\* lines 444-448, 460-463: the engine raises; integration is marked done
Tick460 ==
  /\ tick_pc = "r448"
  /\ integration_done' = TRUE
  /\ tick_pc' = "idle"
  /\ tick_pose' = NoPose
  /\ tick_first' = FALSE
  /\ UNCHANGED << record, paused, live_integration,
                  frame_count, processed_frame_count, reconstructed_frame_count,
                  sensor_data, tsdf_integration_data,
                  depth_images, color_images, rgb_poses,
                  prev_pose_rot, prev_pose_tran,
                  translation_distance, rotational_distance,
                  depth_scale, depth_trunc, crop_mesh, tsdf_volume,
                  svcVars, camVars, popped >>

\* lines 450-459: the count; the periodic cloud changes no field
Tick450 ==
  /\ tick_pc = "r450"
  /\ processed_frame_count' = processed_frame_count + 1
  /\ tick_pc' = "idle"
  /\ tick_pose' = NoPose
  /\ tick_first' = FALSE
  /\ UNCHANGED << record, paused, live_integration, integration_done,
                  frame_count, reconstructed_frame_count,
                  sensor_data, tsdf_integration_data,
                  depth_images, color_images, rgb_poses,
                  prev_pose_rot, prev_pose_tran,
                  translation_distance, rotational_distance,
                  depth_scale, depth_trunc, crop_mesh, tsdf_volume,
                  svcVars, camVars, popped >>

\* lines 441, 464-465: deferred mode (or no volume): the frame is buffered
Tick465 ==
  /\ tick_pc = "r441"
  /\ ~(live_integration /\ tsdf_volume.created)
  /\ tsdf_integration_data' = Append(tsdf_integration_data, tick_pose)
  /\ tick_pc' = "r466"
  /\ UNCHANGED << record, paused, live_integration, integration_done,
                  frame_count, processed_frame_count, reconstructed_frame_count,
                  sensor_data, depth_images, color_images, rgb_poses,
                  prev_pose_rot, prev_pose_tran,
                  translation_distance, rotational_distance,
                  depth_scale, depth_trunc, crop_mesh, tsdf_volume,
                  svcVars, camVars, tick_pose, tick_first, popped >>

\* line 466
Tick466 ==
  /\ tick_pc = "r466"
  /\ processed_frame_count' = processed_frame_count + 1
  /\ tick_pc' = "idle"
  /\ tick_pose' = NoPose
  /\ tick_first' = FALSE
  /\ UNCHANGED << record, paused, live_integration, integration_done,
                  frame_count, reconstructed_frame_count,
                  sensor_data, tsdf_integration_data,
                  depth_images, color_images, rgb_poses,
                  prev_pose_rot, prev_pose_tran,
                  translation_distance, rotational_distance,
                  depth_scale, depth_trunc, crop_mesh, tsdf_volume,
                  svcVars, camVars, popped >>

(***************************************************************************)
(* The three contexts.                                                     *)
(***************************************************************************)
StartSteps ==
  \/ Start271 \/ Start289

StopSteps ==
  \/ Stop328 \/ Stop328Len \/ Stop332NoVolume \/ Stop332
  \/ Stop337 \/ Stop337Raise \/ Stop343

CameraSteps ==
  \/ Camera415 \/ Camera410 \/ Camera416

TickSteps ==
  \/ Tick421 \/ Tick421Raise \/ Tick429Reject \/ Tick429Accept \/ Tick430
  \/ Tick437 \/ Tick438 \/ Tick439 \/ Tick441Live \/ Tick448 \/ Tick460
  \/ Tick450 \/ Tick465 \/ Tick466

Next ==
  \/ Start230 \/ StartSteps
  \/ Stop324 \/ StopSteps
  \/ PauseNotRecording \/ PauseRecording
  \/ ResumeNotPaused \/ ResumePaused
  \/ Respond
  \/ Camera391Drop \/ Camera391 \/ Camera401 \/ CameraSteps
  \/ Tick419Return \/ Tick419 \/ TickSteps

Spec == Init /\ [][Next]_vars

\* The timer keeps firing and a started callback runs to its end; a service
\* call in progress keeps running.
FairSpec ==
  /\ Spec
  /\ WF_vars(Tick419 \/ TickSteps)
  /\ WF_vars(CameraSteps)
  /\ WF_vars(StartSteps)
  /\ WF_vars(StopSteps)
  /\ WF_vars(Respond)

(***************************************************************************)
(* The filter loop of Stop on its own: Stop has extracted a mesh (no crop  *)
(* box) and is about to apply the two filters of its request.              *)
(***************************************************************************)
FilterDirections == { <<0, 0, 1>>, <<1, 0, 0>>, <<0, 0, -1>> }
FilterAngles == { 60, 90, 180 }
Filters ==
  { [normal_direction |-> d, angle |-> a] : d \in FilterDirections,
                                            a \in FilterAngles }

FilterInit ==
  /\ record = FALSE
  /\ paused = FALSE
  /\ live_integration = FALSE
  /\ integration_done = TRUE
  /\ frame_count = 0
  /\ processed_frame_count = 0
  /\ reconstructed_frame_count = 0
  /\ sensor_data = <<>>
  /\ tsdf_integration_data = <<>>
  /\ depth_images = <<>>
  /\ color_images = <<>>
  /\ rgb_poses = <<>>
  /\ prev_pose_rot = IdentityRot
  /\ prev_pose_tran = IdentityTran
  /\ translation_distance = 1
  /\ rotational_distance = 1
  /\ depth_scale = 1000
  /\ depth_trunc = 3
  /\ crop_mesh = FALSE
  /\ tsdf_volume = NewVolume
  /\ svc_pc = "p352"
  /\ req = NoRequest
  /\ res = NoResponse
  /\ \E a \in Filters, b \in Filters :
       stop_req = [normal_filters |-> << a, b >>, min_num_faces |-> 0,
                   archive_directory |-> ""]
  /\ extracted \in SUBSET Triangles
  /\ mesh = extracted
  /\ cropped_mesh = extracted
  /\ filt_i = 0
  /\ mesh_file = NoFile
  /\ archive_mesh_file = NoFile
  /\ cam_pc = "idle"
  /\ cam_stale = FALSE
  /\ tick_pc = "idle"
  /\ tick_pose = NoPose
  /\ tick_first = FALSE
  /\ popped = FALSE

FilterNext == Stop352

FilterSpec == FilterInit /\ [][FilterNext]_vars

(***************************************************************************)
(* Properties.                                                             *)
(***************************************************************************)
\* A Stop call has returned its success response.
StopReturned == svc_pc = "done" /\ res.op = "stop" /\ res.success

\* A consumer tick holds a popped frame it has not finished with.
TickInFlight == tick_pc \notin {"idle", "r421"}

\* No session is open and no control call is part-way through.
Idle == ~record /\ svc_pc \in {"idle", "done"}

\* C1: once Stop has returned (after a Start), the Capture Queue and the
\* DeferredBuffer are empty and the engine has integrated as many frames as
\* the keyframe gate admitted in the session.
C1_StopLeavesNothingPending ==
  StopReturned =>
    /\ sensor_data = <<>>
    /\ tsdf_integration_data = <<>>
    /\ Len(tsdf_volume.integrated) = Len(rgb_poses)

\* C2: drain barrier: in the step in which Stop leaves its wait loop the
\* Capture Queue is empty and no consumer tick is in flight.
C2_DrainBarrier ==
  [][ (svc_pc = "p328len" /\ svc_pc' = "p332")
        => (sensor_data' = <<>> /\ ~TickInFlight') ]_vars

\* C3: every Stop call eventually returns (the timer keeps ticking).
C3_StopTerminates ==
  (svc_pc \in StopPcs) ~> (svc_pc = "done")

\* C4: Pause called while record = true leaves the session Paused and
\* returns success = true with a message, without raising.
C4_PauseWhileRecording ==
  (svc_pc = "done" /\ res.op = "pause" /\ record)
    => (paused /\ res.success /\ ~res.raised /\ res.message # "")

\* C5: operation misuse changes nothing and answers success = false:
\* Pause while record = false, Resume while paused = false, and every step
\* taken while a Stop runs before any Start (no volume exists yet).
PauseMisuse  == svc_pc = "idle" /\ ~record /\ res'.op = "pause"
ResumeMisuse == svc_pc = "idle" /\ ~paused /\ res'.op = "resume"
StopBeforeStart ==
  /\ ~tsdf_volume.created
  /\ \/ svc_pc = "idle" /\ svc_pc' = "p328"
     \/ svc_pc \in StopPcs

C5_MisuseChangesNothing ==
  [][ (PauseMisuse \/ ResumeMisuse \/ StopBeforeStart)
        => /\ nodeVars' = nodeVars
           /\ svc_pc' = "done"
                => (~res'.success /\ ~res'.raised /\ res'.message # "") ]_vars

\* A Stop issued before any Start has answered with its failure.
C5_Witness ==
  /\ svc_pc = "done"
  /\ res = Response("stop", FALSE, "Start reconstruction hasn't been called yet", FALSE)
  /\ ~tsdf_volume.created

\* C6: with no call part-way through, a controller that is not recording is
\* Idle: paused does not hold while record is false (so a Resume after Stop
\* finds nothing to resume).
C6_IdleIsNotPaused ==
  Idle => ~paused

\* C7: in the step in which Start returns, the counters are 0, the queue,
\* the deferred buffer and the archive lists are empty, prevPose is the
\* identity, the parameters are the request's, record holds and paused
\* does not.
C7_StartResets ==
  [][ (svc_pc = "s289" /\ svc_pc' = "done")
        => /\ frame_count' = 0
           /\ processed_frame_count' = 0
           /\ reconstructed_frame_count' = 0
           /\ sensor_data' = <<>>
           /\ tsdf_integration_data' = <<>>
           /\ depth_images' = <<>> /\ color_images' = <<>> /\ rgb_poses' = <<>>
           /\ prev_pose_rot' = IdentityRot /\ prev_pose_tran' = IdentityTran
           /\ translation_distance' = req.translation_distance
           /\ rotational_distance' = req.rotational_distance
           /\ depth_scale' = req.depth_scale
           /\ depth_trunc' = req.depth_trunc
           /\ live_integration' = req.live
           /\ record' /\ ~paused' ]_vars

\* C8: while the controller is Idle the Capture Queue and the
\* DeferredBuffer are empty.
C8_IdleHoldsNoFrames ==
  Idle => (sensor_data = <<>> /\ tsdf_integration_data = <<>>)

\* C9: frames admitted <= frames seen and frames integrated-or-buffered <=
\* frames admitted; stated for the states in which no Start or Stop is
\* part-way through, where the claim asks least.
C9_CounterInvariants ==
  svc_pc \in {"idle", "done"} =>
    /\ Len(rgb_poses) <= frame_count
    /\ processed_frame_count <= Len(rgb_poses)

\* C10: the tick admits the popped frame iff its translation distance or
\* its rotation distance from prevPose reaches the threshold, and the first
\* frame popped in a session is compared with the identity pose.
C10_KeyframeGate ==
  [][ (tick_pc = "r425" /\ tick_pc' # "r425")
        => /\ (tick_pc' = "r430") <=>
                (\/ TranDistSq(tick_pose.t, prev_pose_tran) >= Sq(translation_distance)
                 \/ AbsoluteDistanceSq(prev_pose_rot, tick_pose.q) >= Sq(rotational_distance))
           /\ tick_first =>
                (prev_pose_tran = IdentityTran /\ prev_pose_rot = IdentityRot) ]_vars

\* C11: warm-up.  A tick about to pop (past line 419) runs in a session in
\* which at least WarmUp frames have been seen, and once WarmUp frames have
\* been seen a tick that finds a frame queued goes on to pop it.
C11_WarmUp ==
  /\ tick_pc = "r421" => frame_count >= WarmUp
  /\ (tick_pc = "idle" /\ frame_count >= WarmUp /\ Len(sensor_data) > 0)
       => ENABLED Tick419

\* C12: deferred mode end to end.  While a session started with live = false
\* records, the engine has integrated nothing; when its Stop has returned,
\* the engine has integrated exactly the admitted frames, in the order of
\* admission.
C12_DeferredEndToEnd ==
  /\ (~live_integration /\ record /\ svc_pc \in {"idle", "done"})
       => tsdf_volume.integrated = <<>>
  /\ (~live_integration /\ StopReturned)
       => tsdf_volume.integrated = rgb_poses

\* C13: when Stop is given an archive directory, the mesh written into the
\* archive (integrated.ply) is the mesh as the engine extracted it, with
\* every triangle, whatever the filters and min_num_faces of the request and
\* whether or not a crop box was set.
C13_ArchiveUnfiltered ==
  (StopReturned /\ stop_req.archive_directory # "")
    => archive_mesh_file = File(extracted)

\* The triangles of the extracted mesh that filter f keeps when applied alone.
KeptAlone(f) == filterNormals(extracted, f.normal_direction, f.angle)

\* C20: normal-filter composition.  A filter keeps a triangle iff
\* dot(normal, direction) >= cos(angle); after filter A then filter B the
\* mesh holds exactly the triangles both keep, what is gone is the union of
\* what each removes alone, and B then A gives the same mesh.
C20_FilterComposition ==
  filt_i = 2 =>
    LET A == stop_req.normal_filters[1]
        B == stop_req.normal_filters[2]
    IN  /\ \A f \in {A, B} : \A t \in extracted :
             t \in KeptAlone(f)
               <=> 2 * Dot(t.normal, f.normal_direction) >= CosTimes2(f.angle)
        /\ cropped_mesh = KeptAlone(A) \cap KeptAlone(B)
        /\ extracted \ cropped_mesh =
             (extracted \ KeptAlone(A)) \cup (extracted \ KeptAlone(B))
        /\ cropped_mesh =
             filterNormals(filterNormals(extracted, B.normal_direction, B.angle),
                           A.normal_direction, A.angle)

\* Two filters were applied that each remove triangles the other keeps, and
\* triangles are left.
C20_Witness ==
  /\ filt_i = 2
  /\ cropped_mesh # {}
  /\ KeptAlone(stop_req.normal_filters[1]) \ KeptAlone(stop_req.normal_filters[2]) # {}
  /\ KeptAlone(stop_req.normal_filters[2]) \ KeptAlone(stop_req.normal_filters[1]) # {}

\* C14: a frame whose cameraCallback begins while the session is Paused or
\* Idle is dropped.  No step taken from a state with paused or ~record
\* puts a callback in flight, and only a callback in flight appends to the
\* Capture Queue or counts a frame seen; so a frame is queued and counted
\* only if its callback began while Recording.
C14_DroppedUnlessRecording ==
  [][ /\ (cam_pc = "idle" /\ (paused \/ ~record)) => cam_pc' = "idle"
      /\ (Len(sensor_data') > Len(sensor_data) \/ frame_count' > frame_count)
           => cam_pc # "idle"
    ]_vars

\* A session is Paused, it has seen a frame, and no callback is in flight.
C14_Witness ==
  paused /\ record /\ cam_pc = "idle" /\ frame_count > 0

\* C15: Start is atomic for the producer and the consumer: while a Start is
\* in progress no consumer step is taken, and no producer step that touches
\* the queue or a counter (the test of line 391 and a failed pose lookup
\* touch neither).
C15_StartAtomic ==
  [][ (svc_pc \in StartPcs)
        => /\ tickVars' = tickVars
           /\ \/ cam_pc' = cam_pc
              \/ cam_pc = "idle"
              \/ cam_pc = "c407" /\ cam_pc' = "idle"
    ]_vars

\* The pose of the frame admitted last: the last archived pose, or the pose
\* the tick in flight has admitted and not yet archived.
LastAdmitted ==
  IF tick_pc \in {"r437", "r438", "r439"} THEN tick_pose
  ELSE IF rgb_poses # <<>> THEN rgb_poses[Len(rgb_poses)]
  ELSE NoPose

C17_QueueFifo ==
  [][ /\ (tick_pc = "r421" /\ tick_pc' # "r421")
           => /\ Len(sensor_data) > 0
              /\ tick_pc' = "r425"
              /\ tick_pose' = Head(sensor_data)
              /\ sensor_data' = Tail(sensor_data)
      /\ (tick_pc = "idle" /\ Len(sensor_data) = 0) => tick_pc' = "idle"
      /\ Len(sensor_data') < Len(sensor_data)
           => \/ svc_pc = "idle" /\ svc_pc' = "s271"
              \/ tick_pc = "r421" /\ sensor_data' = Tail(sensor_data)
    ]_vars

\* C18: a live integration that fails ends the tick with the marker
\* cleared (integration_done = true) and the processed count, the engine,
\* the queue, record and paused as they were, so the next tick pops the
\* next queued frame; the marker is down only while a tick is at the
\* integration of line 448, whose two ways out both raise it, so the
\* failure cannot leave the drain barrier unsatisfiable.
C18_LiveFailureContained ==
  [][ /\ (tick_pc = "r448" /\ tick_pc' = "idle")
           => /\ integration_done'
              /\ << processed_frame_count', tsdf_volume', sensor_data',
                    record', paused' >>
                 = << processed_frame_count, tsdf_volume, sensor_data,
                      record, paused >>
      /\ (tick_pc = "r448" /\ tick_pc' # "r448") => integration_done'
      /\ ~integration_done' => tick_pc' = "r448"
    ]_vars

\* A live integration has failed: the frame is archived but not integrated,
\* the tick is at rest with the marker cleared and the next frame queued.
C18_Witness ==
  /\ live_integration /\ record
  /\ tick_pc = "idle" /\ svc_pc = "idle"
  /\ integration_done
  /\ Len(rgb_poses) = 1
  /\ tsdf_volume.integrated = <<>>
  /\ processed_frame_count = 0
  /\ Len(sensor_data) = 1

\* C19: while a session with the live flag set records, the DeferredBuffer
\* is empty.
C19_BufferOnlyWhenDeferred ==
  (live_integration /\ record /\ svc_pc \in {"idle", "done"})
    => tsdf_integration_data = <<>>

\* C21: archive consistency.  Whenever no tick is between its three appends
\* of lines 437-439, the archive lists depth_images, color_images and
\* rgb_poses have the same length, so archiveData (which runs over
\* len(color_images)) finds a depth image and a pose for every index.
C21_ArchiveListsAgree ==
  tick_pc \notin {"r438", "r439"}
    => /\ Len(depth_images) = Len(color_images)
       /\ Len(color_images) = Len(rgb_poses)

\* C22: session isolation.  A frame is appended to the Capture Queue only
\* by a cameraCallback that began after the latest Start began: a callback
\* that was in flight when Start ran drops its frame.
C22_SessionIsolation ==
  [][ (cam_pc = "c407" /\ cam_pc' = "c416") => ~cam_stale ]_vars

=============================================================================
